---------------------------- MODULE Spec2Model ----------------------------
(***************************************************************************)
(* A model of package logger (logger.go): the three global level flags,    *)
(* one tagged logger instance, the leveled print functions, the Check      *)
(* helpers that panic, and BreakOnError, run by a client goroutine whose   *)
(* call stack, deferred calls and in-flight panic are part of the state.   *)
(*                                                                         *)
(* A printed line is a TLA+ string (without its final newline).  A value   *)
(* handed to a print function is a string; an error is the string of its   *)
(* message and the nil error is NIL.                                       *)
(***************************************************************************)
EXTENDS Naturals, Sequences, FiniteSets

(* ------------------------------ bounds -------------------------------- *)

\* Longest error slice a client passes to CheckMultiE.
MaxErrs == 2
\* Deepest call stack of the client goroutine.
MaxDepth == 2

(* ------------------------------ values -------------------------------- *)

NIL == "nil"
Errors == {"e1", "e2"}
ErrVals == Errors \cup {NIL}
Flags == {0, 1}
Tags == {"T"}
\* "" is "no timestamp"; "15:04" is Go's hour:minute layout.
TimeFormats == {"", "15:04"}
\* What time.Now() may return.
Times == {[hour |-> "09", min |-> "30"]}

\* The argument lists v a client passes to a print or check function.
ArgLists == {<<>>, <<"a", "b">>}

RECURSIVE SeqsUpTo(_, _)
SeqsUpTo(S, n) ==
    IF n = 0 THEN {<<>>}
    ELSE LET shorter == SeqsUpTo(S, n - 1)
         IN  shorter \cup {Append(s, x) : s \in {t \in shorter : Len(t) = n - 1}, x \in S}
ErrLists == SeqsUpTo(ErrVals, MaxErrs)

\* The deferred call a function registers on entry.
DeferKinds == {"none", "free", "inst"}

VARIABLES
    DEBUG, WARN, ERROR, \* the package constants, fixed when the package is built
    self,               \* the logger instance Logger() returned
    stack,              \* the goroutine's frames, each its deferred call; top is last
    pc,                 \* where the top frame's function is: 0 on entry, 1 after
                        \* its call statement, 2 after the code that follows it
    panicking,          \* the payload of the panic in flight, NIL when none
    state,              \* "Normal", "Aborting", "Recovered" or "Terminated"
    abortStack,         \* the stack as it was when this run's panic was raised;
                        \* a run lasts from the outermost call to its return
    raised,             \* the payload that panic was raised with
    consumed,           \* how many times that panic was recovered
    printed,            \* the lines the latest step wrote to standard output
    last                \* the latest step: the call made, its inputs and results

vars == <<DEBUG, WARN, ERROR, self, stack, pc, panicking, state, abortStack,
          raised, consumed, printed, last>>

(* --------------------------- fmt and time ----------------------------- *)

\* How fmt prints one operand with %v.
Str(x) == IF x = NIL THEN "<nil>" ELSE x

RECURSIVE JoinSp(_)
JoinSp(v) ==
    IF v = <<>> THEN ""
    ELSE IF Len(v) = 1 THEN Str(v[1])
    ELSE Str(v[1]) \o " " \o JoinSp(Tail(v))

\* %v of a []interface{}: the elements, space separated, in brackets.
FmtSlice(v) == "[" \o JoinSp(v) \o "]"

\* fmt.Println(tag, v) as the print functions call it: two operands, the
\* tag string and the slice v itself, with a space between them.
Println(tag, v) == tag \o " " \o FmtSlice(v)

\* time.Time.Format for the layouts of TimeFormats.
Format(t, layout) ==
    IF layout = "15:04" THEN t.hour \o ":" \o t.min ELSE layout

\* fmt.Sprintf("[%s]", tag)
TagPrefix(tag) == "[" \o tag \o "]"

(* ------------------------------ logger -------------------------------- *)

Logger(tag, d, w, e, timeFormat) ==
    [tag |-> tag, d |-> d, w |-> w, e |-> e, timeFormat |-> timeFormat]

formatMessage(s, now) ==
    IF s.timeFormat # ""
    THEN "[" \o Format(now, s.timeFormat) \o "]" \o TagPrefix(s.tag)
    ELSE TagPrefix(s.tag)

\* Each print function yields the sequence of lines it writes.
D(v) == IF DEBUG = 1 THEN <<Println("[DBG]", v)>> ELSE <<>>

W(v) == IF WARN = 1 THEN <<Println("[WRN]", v)>> ELSE <<>>

E(v) == IF ERROR = 1 THEN <<Println("[ERR]", v)>> ELSE <<>>

logger_D(s, now, v) == IF s.d = 1 THEN D(<<formatMessage(s, now)>> \o v) ELSE <<>>

\* logger_W without its test of the instance flag.
logger_W_NoInstanceGate(s, now, v) == W(<<formatMessage(s, now)>> \o v)

logger_W(s, now, v) == IF s.w = 1 THEN W(<<formatMessage(s, now)>> \o v) ELSE <<>>

logger_E(s, now, v) == IF s.e = 1 THEN E(<<formatMessage(s, now)>> \o v) ELSE <<>>

(* --------------------------- the goroutine ---------------------------- *)

NoTime == [hour |-> "", min |-> ""]

\* The record of a step; the fields a step does not use keep these values.
NoCall == [op |-> "none", form |-> "none", err |-> NIL, errs |-> <<>>, v |-> <<>>,
           now |-> NoTime, ret |-> FALSE, panic |-> NIL, recovered |-> FALSE]

\* A function of the client has the shape of the example in BreakOnError's
\* comment: its defer statement, one call statement (of this package or of
\* another such function), and code after that call.

\* Code of a function body runs only while no panic is in flight.
Running == state = "Normal" /\ stack # <<>>

\* The function on top is at its call statement.
AtCall == Running /\ pc = 0

Init ==
    /\ DEBUG \in Flags /\ WARN \in Flags /\ ERROR \in Flags
    /\ self \in {Logger(t, d, w, e, tf) :
                    t \in Tags, d \in Flags, w \in Flags, e \in Flags, tf \in TimeFormats}
    /\ stack = <<>>
    /\ pc = 0
    /\ panicking = NIL
    /\ state = "Normal"
    /\ abortStack = <<>>
    /\ raised = NIL
    /\ consumed = 0
    /\ printed = <<>>
    /\ last = NoCall

\* A print call in the running function: form is "free" or "inst".
PrintLines(level, form, now, v) ==
    IF form = "free"
    THEN CASE level = "D" -> D(v) [] level = "W" -> W(v) [] OTHER -> E(v)
    ELSE CASE level = "D" -> logger_D(self, now, v)
           [] level = "W" -> logger_W(self, now, v)
           [] OTHER -> logger_E(self, now, v)

DoPrint ==
    /\ AtCall
    /\ pc' = 1
    /\ \E level \in {"D", "W", "E"}, form \in {"free", "inst"}, now \in Times, v \in ArgLists :
          /\ printed' = PrintLines(level, form, now, v)
          /\ last' = [NoCall EXCEPT !.op = level, !.form = form, !.v = v,
                                     !.now = IF form = "inst" THEN now ELSE NoTime]
    /\ UNCHANGED <<DEBUG, WARN, ERROR, self, stack, panicking, state, abortStack, raised, consumed>>

(* --------------------------- check helpers ---------------------------- *)

\* A check helper yields the lines it writes, the value it returns (CheckW
\* only) and the value it panics with; NIL when it returns to its caller.
\* CheckW ending in panic(err), as CheckE does.
CheckW_Panics(err, v) ==
    [out   |-> IF err # NIL THEN W(Append(v, err)) ELSE <<>>,
     ret   |-> err # NIL,
     panic |-> err]

CheckW(err, v) ==
    [out   |-> IF err # NIL THEN W(Append(v, err)) ELSE <<>>,
     ret   |-> err # NIL,
     panic |-> NIL]

\* logger_CheckW returning false where the instance flag is off.
logger_CheckW_FalseWhenOff(s, err, v) ==
    IF s.w = 1
    THEN [out   |-> IF err # NIL THEN W(<<TagPrefix(s.tag)>> \o Append(v, err)) ELSE <<>>,
          ret   |-> err # NIL,
          panic |-> NIL]
    ELSE [out |-> <<>>, ret |-> FALSE, panic |-> NIL]

logger_CheckW(s, err, v) ==
    IF s.w = 1
    THEN CheckW(err, <<TagPrefix(s.tag)>> \o v)
    ELSE [out |-> <<>>, ret |-> err # NIL, panic |-> NIL]

CheckE(err, v) ==
    IF err # NIL
    THEN [out |-> E(Append(v, err)), ret |-> FALSE, panic |-> err]
    ELSE [out |-> <<>>, ret |-> FALSE, panic |-> NIL]

\* logger_CheckE with panic(err) inside the "if" that guards the log.
logger_CheckE_PanicWhenLogged(s, err, v) ==
    IF err # NIL /\ s.e = 1 /\ ERROR = 1
    THEN [out   |-> E(<<TagPrefix(s.tag)>> \o Append(v, err)),
          ret   |-> FALSE,
          panic |-> err]
    ELSE [out |-> <<>>, ret |-> FALSE, panic |-> NIL]

logger_CheckE(s, err, v) ==
    IF err # NIL
    THEN [out   |-> IF s.e = 1 /\ ERROR = 1
                    THEN E(<<TagPrefix(s.tag)>> \o Append(v, err))
                    ELSE <<>>,
          ret   |-> FALSE,
          panic |-> err]
    ELSE [out |-> <<>>, ret |-> FALSE, panic |-> NIL]

\* findFirstError without the return inside its loop: the last non-nil entry.
RECURSIVE findLastError(_)
findLastError(errs) ==
    IF errs = <<>> THEN NIL
    ELSE IF errs[Len(errs)] # NIL THEN errs[Len(errs)]
    ELSE findLastError(SubSeq(errs, 1, Len(errs) - 1))

RECURSIVE findFirstError(_)
findFirstError(errs) ==
    IF errs = <<>> THEN NIL
    ELSE IF Head(errs) # NIL THEN Head(errs)
    ELSE findFirstError(Tail(errs))

\* The loop "for _, err := range errs { if err != nil { E(pre, v, err) } }".
RECURSIVE LogEach(_, _, _)
LogEach(errs, pre, v) ==
    IF errs = <<>> THEN <<>>
    ELSE (IF Head(errs) # NIL THEN E(pre \o Append(v, Head(errs))) ELSE <<>>)
         \o LogEach(Tail(errs), pre, v)

\* CheckMultiE logging its arguments before it looks at firstErr.
CheckMultiE_LogsFirst(errs, v) ==
    [out   |-> E(Append(v, findFirstError(errs))),
     ret   |-> FALSE,
     panic |-> findFirstError(errs)]

CheckMultiE(errs, v) ==
    LET firstErr == findFirstError(errs)
    IN  IF firstErr # NIL
        THEN [out   |-> IF ERROR = 1 THEN LogEach(errs, <<>>, v) ELSE <<>>,
              ret   |-> FALSE,
              panic |-> firstErr]
        ELSE [out |-> <<>>, ret |-> FALSE, panic |-> NIL]

logger_CheckMultiE(s, errs, v) ==
    LET firstErr == findFirstError(errs)
    IN  IF firstErr # NIL
        THEN [out   |-> IF s.e = 1 /\ ERROR = 1
                        THEN LogEach(errs, <<TagPrefix(s.tag)>>, v)
                        ELSE <<>>,
              ret   |-> FALSE,
              panic |-> firstErr]
        ELSE [out |-> <<>>, ret |-> FALSE, panic |-> NIL]

\* The effect of a check helper's result on the goroutine: panic(x) with a
\* non-nil x starts unwinding the stack the call was made on.
Finish(res, call) ==
    /\ printed' = res.out
    /\ last' = [call EXCEPT !.ret = res.ret, !.panic = res.panic]
    /\ panicking' = res.panic
    /\ IF res.panic # NIL
       THEN /\ state' = "Aborting"
            /\ abortStack' = stack
            /\ raised' = res.panic
            /\ consumed' = 0
       ELSE UNCHANGED <<state, abortStack, raised, consumed>>
    /\ pc' = IF res.panic # NIL THEN pc ELSE 1
    /\ UNCHANGED <<DEBUG, WARN, ERROR, self, stack>>

DoCheckW ==
    /\ AtCall
    /\ \E form \in {"free", "inst"}, err \in ErrVals, v \in ArgLists :
          Finish(IF form = "free" THEN CheckW(err, v) ELSE logger_CheckW(self, err, v),
                 [NoCall EXCEPT !.op = "CheckW", !.form = form, !.err = err, !.v = v])

DoCheckE ==
    /\ AtCall
    /\ \E form \in {"free", "inst"}, err \in ErrVals, v \in ArgLists :
          Finish(IF form = "free" THEN CheckE(err, v) ELSE logger_CheckE(self, err, v),
                 [NoCall EXCEPT !.op = "CheckE", !.form = form, !.err = err, !.v = v])

DoCheckMultiE ==
    /\ AtCall
    /\ \E form \in {"free", "inst"}, errs \in ErrLists, v \in ArgLists :
          Finish(IF form = "free" THEN CheckMultiE(errs, v)
                                  ELSE logger_CheckMultiE(self, errs, v),
                 [NoCall EXCEPT !.op = "CheckMultiE", !.form = form, !.errs = errs, !.v = v])

(* ------------------------- panic and recover -------------------------- *)

\* Go's recover(): the payload of the panic in flight, but only when the
\* function calling it was itself the deferred call.
recover(direct) == IF direct THEN panicking ELSE NIL

\* BreakOnError without its "r != nil" test.
BreakOnError_NoNilTest(direct) ==
    [r |-> recover(direct), out |-> E(<<"Recovered from panic:", recover(direct)>>)]

\* BreakOnError that recovers and leaves out the call of E.
BreakOnError_NoLog(direct) == [r |-> recover(direct), out |-> <<>>]

\* BreakOnError yields the value it recovered (NIL when none) and the lines
\* it writes; direct tells whether it is itself the deferred call.
BreakOnError(direct) ==
    LET r == recover(direct)
    IN  IF r # NIL
        THEN [r |-> r, out |-> E(<<"Recovered from panic:", r>>)]
        ELSE [r |-> NIL, out |-> <<>>]

\* The method calls the free function, which then calls recover().
logger_BreakOnError(s) == BreakOnError(FALSE)

\* Running the deferred call of a frame while it exits.
RunDeferred(kind) ==
    CASE kind = "free" -> BreakOnError(TRUE)
      [] kind = "inst" -> logger_BreakOnError(self)
      [] OTHER         -> [r |-> NIL, out |-> <<>>]

Top == stack[Len(stack)]
Pop == SubSeq(stack, 1, Len(stack) - 1)

\* The running function calls another one, whose first statement is its defer.
Call ==
    /\ state = "Normal"
    /\ stack # <<>> => pc = 0
    /\ Len(stack) < MaxDepth
    /\ \E kind \in DeferKinds : stack' = Append(stack, kind)
    /\ pc' = 0
    /\ IF stack = <<>>
       THEN abortStack' = <<>> /\ raised' = NIL /\ consumed' = 0
       ELSE UNCHANGED <<abortStack, raised, consumed>>
    /\ printed' = <<>>
    /\ last' = [NoCall EXCEPT !.op = "call"]
    /\ UNCHANGED <<DEBUG, WARN, ERROR, self, panicking, state>>

\* The code after the call statement of the running function.
Rest ==
    /\ Running
    /\ pc = 1
    /\ pc' = 2
    /\ printed' = <<>>
    /\ last' = [NoCall EXCEPT !.op = "rest"]
    /\ UNCHANGED <<DEBUG, WARN, ERROR, self, stack, panicking, state, abortStack, raised, consumed>>

\* The running function returns: its deferred call runs with no panic in
\* flight, and its caller is then past its call statement.
Return ==
    /\ Running
    /\ pc' = 1
    /\ LET res == RunDeferred(Top)
       IN  /\ printed' = res.out
           /\ last' = [NoCall EXCEPT !.op = "return", !.form = Top,
                                      !.panic = res.r, !.recovered = res.r # NIL]
           /\ consumed' = IF res.r # NIL THEN consumed + 1 ELSE consumed
    /\ stack' = Pop
    /\ UNCHANGED <<DEBUG, WARN, ERROR, self, panicking, state, abortStack, raised>>

\* The panic in flight reaches the top frame: its deferred call runs; a
\* recovered panic stops there, any other goes on to the caller, and one
\* that leaves the last frame ends the program.
Unwind ==
    /\ state = "Aborting"
    /\ stack # <<>>
    /\ LET res == RunDeferred(Top)
       IN  /\ printed' = res.out
           /\ last' = [NoCall EXCEPT !.op = "unwind", !.form = Top,
                                      !.panic = res.r, !.recovered = res.r # NIL]
           /\ IF res.r # NIL
              THEN /\ panicking' = NIL
                   /\ state' = "Recovered"
                   /\ consumed' = consumed + 1
                   /\ stack' = stack
              ELSE /\ stack' = Pop
                   /\ state' = IF Pop = <<>> THEN "Terminated" ELSE "Aborting"
                   /\ UNCHANGED <<panicking, consumed>>
    /\ UNCHANGED <<DEBUG, WARN, ERROR, self, pc, abortStack, raised>>

\* The function whose deferred call recovered returns normally to its caller.
Resume ==
    /\ state = "Recovered"
    /\ stack' = Pop
    /\ pc' = 1
    /\ state' = "Normal"
    /\ printed' = <<>>
    /\ last' = [NoCall EXCEPT !.op = "resume"]
    /\ UNCHANGED <<DEBUG, WARN, ERROR, self, panicking, abortStack, raised, consumed>>

Next ==
    \/ DoPrint
    \/ DoCheckW
    \/ DoCheckE
    \/ DoCheckMultiE
    \/ Call
    \/ Rest
    \/ Return
    \/ Unwind
    \/ Resume

Spec == Init /\ [][Next]_vars

(* ------------------------ what the claims use ------------------------- *)

\* The non-nil entries of an error slice, in order.
NonNil(errs) == SelectSeq(errs, LAMBDA e : e # NIL)

\* The instance's tag as the check helpers prepend it; nothing for the free form.
Pre == IF last.form = "inst" THEN <<"[T]">> ELSE <<>>

\* Whether error (warn) lines of the latest call pass its flags.
ErrGate == IF last.form = "inst" THEN self.e = 1 /\ ERROR = 1 ELSE ERROR = 1
WarnGate == IF last.form = "inst" THEN self.w = 1 /\ WARN = 1 ELSE WARN = 1

\* Whether a deferred call is a BreakOnError, and whether it is the free one.
IsBreak(kind) == kind \in {"free", "inst"}

\* The frames of the raising stack that deferred the free BreakOnError.
FreeFrames == {i \in DOMAIN abortStack : abortStack[i] = "free"}

\* The innermost of them: the nearest to the frame that raised.
Innermost == CHOOSE i \in FreeFrames : \A j \in FreeFrames : j <= i

\* The latest step ran a frame's deferred BreakOnError while a panic that a
\* check helper raised was propagating through that frame.
FreeBreakHitByAbort == last.op = "unwind" /\ last.form = "free"

(* ------------------------------- C1 ----------------------------------- *)

\* C1: CheckE with a non-nil err, free or instance form, under every value
\* of the flags, leaves a panic in flight whose payload is err; it writes one
\* error line (the arguments, then err) iff the flags that apply are set: the
\* instance flag and ERROR for the instance form, ERROR alone for the free one.
C1_CheckEAlwaysAborts ==
    (last.op = "CheckE" /\ last.err # NIL) =>
        /\ state = "Aborting"
        /\ panicking = last.err
        /\ last.panic = last.err
        /\ printed = IF ErrGate
                     THEN <<Println("[ERR]", Pre \o last.v \o <<last.err>>)>>
                     ELSE <<>>

\* An instance made with e = 0, under ERROR = 1: nothing printed, panic with err.
C1_Witness ==
    /\ last.op = "CheckE" /\ last.form = "inst" /\ last.err = "e1"
    /\ self.e = 0 /\ ERROR = 1
    /\ printed = <<>>
    /\ panicking = "e1"

(* ------------------------------- C2 ----------------------------------- *)

\* C2 as stated: the free BreakOnError, deferred by a function a panic of
\* CheckE/CheckMultiE is propagating through, stops the panic, writes exactly
\* one error line with the payload, and the function is left to return
\* normally.
C2_OneLineAlways ==
    FreeBreakHitByAbort =>
        /\ state = "Recovered"
        /\ panicking = NIL
        /\ last.panic = raised
        /\ printed = <<Println("[ERR]", <<"Recovered from panic:", raised>>)>>

\* C2 amended: the same, except that the line is written iff ERROR is 1.
C2_OneLineIffErrorFlag ==
    /\ FreeBreakHitByAbort =>
          /\ state = "Recovered"
          /\ panicking = NIL
          /\ last.panic = raised
          /\ printed = IF ERROR = 1
                       THEN <<Println("[ERR]", <<"Recovered from panic:", raised>>)>>
                       ELSE <<>>
    /\ last.op = "resume" => state = "Normal" /\ panicking = NIL

C2_Witness ==
    /\ FreeBreakHitByAbort
    /\ state = "Recovered"
    /\ raised = "e2"
    /\ ERROR = 1
    /\ Len(printed) = 1

(* ------------------------------- C3 ----------------------------------- *)

\* C3: the instance form of BreakOnError, deferred by a function a panic is
\* propagating through, does what the free form does: it stops the panic and
\* logs the payload through E.
C3_InstanceFormRecovers ==
    (last.op = "unwind" /\ last.form = "inst") =>
        /\ state = "Recovered"
        /\ panicking = NIL
        /\ printed = E(<<"Recovered from panic:", raised>>)

(* ------------------------------- C4 ----------------------------------- *)

\* C4: CheckMultiE on a slice with a non-nil entry panics with the first
\* non-nil entry, whatever the flags; with error logging on it writes one line
\* per non-nil entry, in the order of the slice, and with it off none.
C4_FirstErrorAborts ==
    (last.op = "CheckMultiE" /\ NonNil(last.errs) # <<>>) =>
        /\ state = "Aborting"
        /\ panicking = NonNil(last.errs)[1]
        /\ printed = IF ErrGate
                     THEN [k \in 1..Len(NonNil(last.errs)) |->
                              Println("[ERR]", Pre \o last.v \o <<NonNil(last.errs)[k]>>)]
                     ELSE <<>>

\* Two non-nil entries: two lines, and the panic carries the first.
C4_Witness ==
    /\ last.op = "CheckMultiE" /\ last.errs = <<"e2", "e1">>
    /\ panicking = "e2"
    /\ Len(printed) = 2

(* ------------------------------- C5 ----------------------------------- *)

\* C5: CheckMultiE on an empty or all-nil slice writes nothing, raises no
\* panic and returns to its caller, under every value of the flags.
C5_NoErrorNoOp ==
    (last.op = "CheckMultiE" /\ \A i \in DOMAIN last.errs : last.errs[i] = NIL) =>
        /\ printed = <<>>
        /\ state = "Normal"
        /\ panicking = NIL
        /\ pc = 1

C5_Witness ==
    /\ last.op = "CheckMultiE" /\ last.errs = <<NIL, NIL>>
    /\ ERROR = 1 /\ self.e = 1
    /\ pc = 1

(* ------------------------------- C6 ----------------------------------- *)

\* C6: CheckW returns whether err is non-nil, whatever the flags, and never
\* panics; with a nil err it writes nothing, with a non-nil err exactly one
\* warn line iff the flags that apply are set.
C6_CheckWReturnsErrPresent ==
    last.op = "CheckW" =>
        /\ last.ret = (last.err # NIL)
        /\ state = "Normal"
        /\ panicking = NIL
        /\ pc = 1
        /\ printed = IF last.err # NIL /\ WarnGate
                     THEN <<Println("[WRN]", Pre \o last.v \o <<last.err>>)>>
                     ELSE <<>>

\* The instance's warn flag is off: no line, and still true.
C6_Witness ==
    /\ last.op = "CheckW" /\ last.form = "inst" /\ last.err = "e1"
    /\ self.w = 0 /\ WARN = 1
    /\ last.ret = TRUE
    /\ printed = <<>>

(* ------------------------------- C7 ----------------------------------- *)

\* C7: a step that calls the instance method D, W or E writes a line iff the
\* instance's flag for the level and the global flag for it are both 1, and
\* leaves the global flags and the instance as they were.
C7_InstanceAndGlobal ==
    [][(last'.form = "inst" /\ last'.op \in {"D", "W", "E"}) =>
          /\ Len(printed') = IF \/ last'.op = "D" /\ self.d = 1 /\ DEBUG = 1
                                \/ last'.op = "W" /\ self.w = 1 /\ WARN = 1
                                \/ last'.op = "E" /\ self.e = 1 /\ ERROR = 1
                             THEN 1 ELSE 0
          /\ UNCHANGED <<DEBUG, WARN, ERROR, self>>]_vars

\* The instance's flag is on and the global one off: nothing is written.
C7_Witness ==
    /\ last.form = "inst" /\ last.op = "W"
    /\ self.w = 1 /\ WARN = 0
    /\ printed = <<>>

(* ------------------------------- C8 ----------------------------------- *)

LevelTag(op) == CASE op = "D" -> "[DBG]" [] op = "W" -> "[WRN]" [] OTHER -> "[ERR]"

\* C8: a line a free D, W or E prints is the level tag, one space, and the
\* arguments joined by single spaces, with nothing else; for an instance
\* method the formatted prefix is the first of those arguments.
C8_TagThenJoinedArgs ==
    (last.op \in {"D", "W", "E"} /\ printed # <<>>) =>
        printed[1] = LevelTag(last.op) \o " " \o
                     JoinSp((IF last.form = "inst"
                             THEN <<formatMessage(self, last.now)>>
                             ELSE <<>>) \o last.v)

(* ------------------------------- C9 ----------------------------------- *)

\* What C9 says apart from the log line: a panic is recovered at most once;
\* where frames of the raising stack deferred the free BreakOnError, the one
\* that recovers is the innermost of them; and a BreakOnError that runs with
\* no panic in flight, as a function returns, recovers nothing and writes
\* nothing.
C9_Once ==
    /\ consumed <= 1
    /\ last.recovered => /\ last.op = "unwind"
                         /\ consumed = 1
                         /\ FreeFrames # {}
                         /\ Len(stack) = Innermost
    /\ (state # "Aborting" /\ FreeFrames # {}) =>
          state # "Terminated" /\ consumed = 1
    /\ (last.op = "return" /\ IsBreak(last.form)) =>
          ~last.recovered /\ printed = <<>> /\ state = "Normal"

\* Several nested frames of the raising stack deferred the free BreakOnError.
Several == Cardinality(FreeFrames) >= 2

C10_ControlStates ==
    [][/\ (state # "Aborting" /\ state' = "Aborting") =>
            /\ state = "Normal"
            /\ last'.op \in {"CheckE", "CheckMultiE"}
            /\ \/ last'.err # NIL
               \/ \E i \in DOMAIN last'.errs : last'.errs[i] # NIL
       /\ state = "Aborting" =>
            /\ state' \in {"Aborting", "Recovered", "Terminated"}
            /\ last'.op = "unwind"
            /\ pc' = pc
       /\ state = "Recovered" =>
            /\ state' = "Normal"
            /\ last'.op = "resume"
            /\ Len(stack') < Len(abortStack)
       /\ state = "Terminated" => state' = "Terminated"
       /\ state' = "Recovered" =>
            /\ state = "Aborting"
            /\ \E i \in 1..Len(stack') : IsBreak(abortStack[i])
       /\ state' = "Terminated" =>
            state = "Aborting"
       /\ (state' \in {"Recovered", "Terminated"}
             /\ \A i \in DOMAIN abortStack' : ~IsBreak(abortStack'[i])) =>
            state' = "Terminated"
      ]_vars

\* A panic raised in a callee and recovered by the BreakOnError of its caller.
C10_Witness ==
    /\ state = "Recovered"
    /\ Len(abortStack) = 2
    /\ Len(stack) = 1

=============================================================================
